---- MODULE Spec2Model ----
(***************************************************************************)
(* A model of gsb: the Server (command registry, dispatch loop,           *)
(* notification) of src/gsb/server.py and the Protocol (one connection,    *)
(* its swappable parser, its lifecycle events) of src/gsb/protocol.py.     *)
(*                                                                         *)
(* Every operation records the calls it makes, in order, in `trace`, the   *)
(* fault that escapes it in `raised`, and its own name and arguments in    *)
(* `event`; the three are overwritten by the next operation.               *)
(***************************************************************************)
EXTENDS Naturals, Sequences, FiniteSets

VARIABLES
    commands,        \* Server.commands: the ordered list of Commands
    connections,     \* Server.connections: the list of registered Protocols
    default_parser,  \* Server.default_parser, or Undefined (no such attribute)
    parser,          \* Protocol._parser of each connection (None when absent)
    phase,           \* each connection: "new" (constructed), "made", "lost"
    event,           \* the last operation and its arguments
    trace,           \* the calls the last operation made, in order
    raised,          \* the fault that escaped the last operation, or NoFault
    attached         \* history (kept under SpecHooks): what each parser has seen
                     \* of each connection's attach and detach hooks

vars == <<commands, connections, default_parser, parser, phase, event, trace, raised,
          attached>>

----------------------------------------------------------------------------
(* Bounds and the finite sets the inputs are drawn from.                   *)

MaxCommands == 3

Conns == {"c1", "c2"}
Parsers == {"P1", "P2"}

None == "None"
Undefined == "Undefined"
NoFault == "NoFault"

ParserOrNone == Parsers \cup {None}

(* Bytes of a raw line: two valid characters and one byte that is not      *)
(* valid in the connection's encoding.                                     *)
Byte(ch) == <<"utf8", ch>>
BadByte == <<"invalid", "xff">>
RawLines == { <<Byte("a")>>, <<Byte("a"), Byte("b")>>, <<Byte("b")>>,
              <<Byte("a"), BadByte>> }

(* A pattern is a literal searched anywhere in the line, or anchored at    *)
(* both ends (^lit$).                                                      *)
AnyA == [anchored |-> FALSE, lit |-> <<"a">>]
OnlyA == [anchored |-> TRUE, lit |-> <<"a">>]

(* Command.allowed: absent ("none"), or a predicate that answers true or   *)
(* false.  (The loop below also says what a guard that raises does: its    *)
(* fault leaves handle_line.)                                              *)
TotalGuards == {"none", "true", "false"}
(* Command.func: returns, raises DontStopException, or raises another      *)
(* Exception.                                                              *)
PlainFuncs == {"ok", "skip", "fault"}

DontStopException == "DontStopException"
HandlerFault == "Exception"
AttributeError == "AttributeError"

Min(S) == CHOOSE x \in S : \A y \in S : x <= y

----------------------------------------------------------------------------
(* Pure functions.                                                         *)

(* bytes.decode(encoding, 'ignore'): bytes that are not valid are dropped, *)
(* every other byte becomes its character.                                 *)
Decode(raw) ==
    LET valid == SelectSeq(raw, LAMBDA b : b[1] = "utf8")
    IN  [i \in 1..Len(valid) |-> valid[i][2]]

(* str.encode(): every character becomes its byte.                         *)
Encode(text) == [i \in 1..Len(text) |-> Byte(text[i])]

(* re.search(regexp, line): the leftmost occurrence, as a match object     *)
(* (held in a sequence of one element), or no match (the empty sequence).  *)
OccursAt(lit, line, k) ==
    /\ k + Len(lit) - 1 <= Len(line)
    /\ SubSeq(line, k, k + Len(lit) - 1) = lit

Search(regexp, line) ==
    LET starts == IF regexp.anchored
                    THEN {k \in {1} : line = regexp.lit}
                    ELSE {k \in 1..Len(line) : OccursAt(regexp.lit, line, k)}
    IN  IF starts = {} THEN <<>>
        ELSE << [re |-> regexp, start |-> Min(starts)] >>

(* text % values, token by token: "%s" takes the next positional value,    *)
(* "%(k)s" the named value, "%%" becomes "%" (so "%%(k)s" becomes the      *)
(* placeholder "%(k)s" of a later pass); any other token is literal.       *)
RECURSIVE Percent(_, _, _)
Percent(text, values, n) ==
    IF text = <<>> THEN <<>>
    ELSE LET t == Head(text)
         IN  IF t = "%s" \/ t = "%(k)s"
               THEN <<values[n]>> \o Percent(Tail(text), values, n + 1)
             ELSE IF t = "%%"
               THEN <<"%">> \o Percent(Tail(text), values, n)
             ELSE IF t = "%%(k)s"
               THEN <<"%(k)s">> \o Percent(Tail(text), values, n)
             ELSE <<t>> \o Percent(Tail(text), values, n)

(* Server.format_text: the positional pass, then the named pass, each only *)
(* when its arguments are given.                                           *)
format_text(text, args, kwargs) ==
    LET t1 == IF args # <<>> THEN Percent(text, args, 1) ELSE text
    IN  IF kwargs # <<>> THEN Percent(t1, kwargs, 1) ELSE t1

(* The (text, args, kwargs) triples notify and broadcast are called with:  *)
(* the placeholders of the text are the ones the arguments fill.           *)
FormatInputs ==
    { [text |-> <<"hi">>,             args |-> <<>>,    kwargs |-> <<>>],
      [text |-> <<"%%">>,             args |-> <<>>,    kwargs |-> <<>>],
      [text |-> <<"%s", "%%">>,       args |-> <<"v">>, kwargs |-> <<>>],
      [text |-> <<"%(k)s">>,          args |-> <<>>,    kwargs |-> <<"w">>],
      [text |-> <<"%s", "%%(k)s">>,   args |-> <<"v">>, kwargs |-> <<"w">>] }

----------------------------------------------------------------------------
(* The record of one call made during an operation.  c is the connection   *)
(* it concerns, i the index of the Command, a and b its arguments: parser  *)
(* and context for the attach and detach hooks; for the calls of the       *)
(* dispatch loop, a is the guard or handler called and b the Caller's      *)
(* exception field when the call was made (a, for on_error).  text is the  *)
(* decoded line, bytes the payload of sendLine, match the Caller's match   *)
(* field when the call was made.                                           *)
Call(op, c, i, a, b, text, bytes, match) ==
    [op |-> op, c |-> c, i |-> i, a |-> a, b |-> b,
     text |-> text, bytes |-> bytes, match |-> match]

PlainCall(op, c) == Call(op, c, 0, None, None, <<>>, <<>>, <<>>)
HookCall(op, c, p, ctx) == Call(op, c, 0, p, ctx, <<>>, <<>>, <<>>)

(* The running state of an operation: the parsers, the calls made so far,  *)
(* the fault in flight, and the Caller's match and exception fields.       *)
Begin(c) == [parser |-> parser, trace |-> <<>>, raised |-> NoFault,
             c |-> c, match |-> <<>>, exception |-> None]

Log(st, call) == [st EXCEPT !.trace = Append(@, call)]
Raise(st, fault) == [st EXCEPT !.raised = fault]

----------------------------------------------------------------------------
(* Server.notify: a present connection is sent the formatted text, encoded *)
(* as one line; an absent one is sent nothing.                             *)
notify(st, connection, text, args, kwargs) ==
    IF connection # None
      THEN Log(st, Call("sendLine", connection, 0, None, None, <<>>,
                        Encode(format_text(text, args, kwargs)), <<>>))
      ELSE st

(* broadcast without the formatting pass.                                  *)
RECURSIVE broadcast_loop(_, _, _)
broadcast_raw(st, text, args, kwargs) == broadcast_loop(st, connections, text)

(* Server.broadcast: format once, then notify each registered connection   *)
(* with the formatted text and no arguments.                               *)
broadcast_loop(st, cons, text) ==
    IF cons = <<>> THEN st
    ELSE broadcast_loop(notify(st, Head(cons), text, <<>>, <<>>), Tail(cons), text)

broadcast(st, text, args, kwargs) ==
    broadcast_loop(st, connections, format_text(text, args, kwargs))

ErrorText == <<"There was an error with your command.">>
HuhText == <<"I don't understand that.">>

(* on_error telling every connection.                                      *)
on_error_to_all(st) ==
    broadcast(Log(st, Call("on_error", st.c, 0, st.exception, None, <<>>, <<>>, st.match)),
              ErrorText, <<>>, <<>>)

(* Server.on_error (the default).                                          *)
on_error(st) ==
    notify(Log(st, Call("on_error", st.c, 0, st.exception, None, <<>>, <<>>, st.match)),
           st.c, ErrorText, <<>>, <<>>)

(* Server.huh (the default).                                               *)
huh(st) ==
    notify(Log(st, Call("huh", st.c, 0, None, st.exception, <<>>, <<>>, st.match)),
           st.c, HuhText, <<>>, <<>>)

----------------------------------------------------------------------------
(* Protocol.parser (the setter), run for connection c with the assigned    *)
(* value.  has_logger: connectionMade has set self.logger.  Reading        *)
(* server.default_parser raises AttributeError when the Server has no such *)
(* attribute, and so does reading self.logger before connectionMade; the   *)
(* fault leaves _parser as it was.                                         *)

(* The assignment storing the value on every connection.                   *)
attach_shared(st, c, value, old_parser) ==
    Log([st EXCEPT !.parser = [d \in Conns |-> value]],
        HookCall("on_attach", c, value, old_parser))

(* self._parser = value; value.on_attach(self, old_parser).                *)
attach(st, c, value, old_parser) ==
    Log([st EXCEPT !.parser[c] = value], HookCall("on_attach", c, value, old_parser))

parser_setter(st, c, value, has_logger) ==
    LET old_parser == st.parser[c]
        s1 == IF old_parser # None
                THEN Log(st, HookCall("on_detach", c, old_parser, value))
                ELSE st
    IN  IF value = None
          THEN IF default_parser = Undefined \/ ~has_logger
                 THEN Raise(s1, AttributeError)
                 ELSE attach(Log(s1, HookCall("warning", c, default_parser, None)),
                             c, default_parser, old_parser)
          ELSE attach(s1, c, value, old_parser)

----------------------------------------------------------------------------
(* Server.handle_line.                                                     *)

(* The else branch without the clearing of the match.                     *)
for_else_stale(st) == huh(st)

(* The else branch of the for loop: no break was executed.                 *)
for_else(st) == huh([st EXCEPT !.match = <<>>])

(* A normal return that does not break.                                    *)
after_func_no_break(outcome) ==
    IF outcome = DontStopException \/ outcome = NoFault THEN "continue"
    ELSE "error"

(* DontStopException ending the loop like a normal return.                 *)
after_func_skip_breaks(outcome) ==
    IF outcome = DontStopException \/ outcome = NoFault THEN "break"
    ELSE "error"

(* What a handler's outcome does to the loop: DontStopException continues  *)
(* with the next Command, any other Exception goes to the error path and   *)
(* then breaks, a normal return breaks.                                    *)
after_func(outcome) ==
    IF outcome = DontStopException THEN "continue"
    ELSE IF outcome = NoFault THEN "break"
    ELSE "error"

(* The body of a handler: what cmd.func(caller) does and how it ends.      *)
(* A handler that assigns the connection's parser ends with the fault of   *)
(* the setter, if the setter raises.                                       *)
func_body(st, cmd) ==
    IF cmd.func = "skip" THEN Raise(st, DontStopException)
    ELSE IF cmd.func = "fault" THEN Raise(st, HandlerFault)
    ELSE IF cmd.func = "swap" THEN parser_setter(st, st.c, cmd.arg, TRUE)
    ELSE st

(* The except clause without the capture onto the Caller.                 *)
error_path_no_capture(st, i) ==
    on_error(Log(Raise(st, NoFault), PlainCall("logger.exception", st.c)))

(* The except clause for Exception: capture, log, on_error.                *)
error_path(st, i) ==
    on_error(Log([st EXCEPT !.exception = st.raised, !.raised = NoFault],
                 PlainCall("logger.exception", st.c)))

(* The search leaving the Caller's match as it was when it fails.          *)
search_step_keep(st, cmd, line) ==
    IF Search(cmd.regexp, line) = <<>> THEN st
    ELSE [st EXCEPT !.match = Search(cmd.regexp, line)]

(* caller.match = cmd.regexp.search(line): the result, or None, replaces   *)
(* whatever the Caller held.                                               *)
search_step(st, cmd, line) == [st EXCEPT !.match = Search(cmd.regexp, line)]

(* A guard whose answer is not looked at.                                  *)
permits_always(answer) == TRUE

(* What the answer of cmd.allowed(caller) does to the condition of the     *)
(* if statement.                                                           *)
permits(answer) == answer = "true"

RECURSIVE dispatch(_, _, _)
try_func(st, i, line) ==
    LET s1 == func_body(Log(st, Call("func", st.c, i, commands[i].func, st.exception,
                                     <<>>, <<>>, st.match)),
                        commands[i])
        flow == after_func(s1.raised)
    IN  IF flow = "continue" THEN dispatch(Raise(s1, NoFault), i + 1, line)
        ELSE IF flow = "error" THEN error_path(s1, i)
        ELSE s1

dispatch(st, i, line) ==
    IF i > Len(commands) THEN for_else(st)
    ELSE LET cmd == commands[i]
             s1 == Log(search_step(st, cmd, line),
                       Call("search", st.c, i, None, st.exception, <<>>, <<>>, <<>>))
             s2 == Log(s1, Call("allowed", st.c, i, cmd.allowed, st.exception,
                                <<>>, <<>>, s1.match))
         IN  IF s1.match = <<>> THEN dispatch(s1, i + 1, line)
             ELSE IF cmd.allowed = "none" THEN try_func(s1, i, line)
             ELSE IF cmd.allowed \notin TotalGuards THEN Raise(s2, HandlerFault)
             ELSE IF permits(cmd.allowed) THEN try_func(s2, i, line)
             ELSE dispatch(s2, i + 1, line)

(* handle_line without the gate.                                           *)
handle_line_ungated(st, line, gate) ==
    dispatch(Log(st, Call("on_command", st.c, 0, None, None, line, <<>>, <<>>)), 1, line)

(* on_command is the overridable gate; gate is what it returns.            *)
handle_line(st, line, gate) ==
    LET s1 == Log(st, Call("on_command", st.c, 0, None, None, line, <<>>, <<>>))
    IN  IF gate THEN dispatch(s1, 1, line) ELSE s1

----------------------------------------------------------------------------
(* Menu, a parser whose line handler resolves the line against the labels  *)
(* of its items.                                                           *)

MenuIds == {"M1", "M2", "M3"}

MenuItem(label, func, arg) == [text |-> label, func |-> func, arg |-> arg]

(* The items of each menu.  An item's action returns ("act") or assigns    *)
(* the connection's parser ("swap": into another menu or back to P1).      *)
MenuOf(id) ==
    CASE id = "M1" -> << MenuItem(<<"A", "b">>, "act", None),
                         MenuItem(<<"a", "$">>, "swap", "M2"),
                         MenuItem(<<"C">>, "swap", "P1") >>
      [] id = "M2" -> << MenuItem(<<"$">>, "act", None),
                         MenuItem(<<"a">>, "swap", "M1") >>
      [] id = "M3" -> << MenuItem(<<"A">>, "act", None) >>

(* The lines sent to a menu.                                               *)
MenuTexts == { <<"$">>, <<" ", "$">>, <<"a">>, <<"B">>, <<"c">>, <<"x">>, <<>> }

Lower(ch) ==
    CASE ch = "A" -> "a" [] ch = "B" -> "b" [] ch = "C" -> "c" [] OTHER -> ch

LowerAll(text) == [k \in 1..Len(text) |-> Lower(text[k])]

RECURSIVE StripLeft(_)
StripLeft(text) ==
    IF text # <<>> /\ Head(text) = " " THEN StripLeft(Tail(text)) ELSE text

RECURSIVE StripRight(_)
StripRight(text) ==
    IF text # <<>> /\ text[Len(text)] = " "
      THEN StripRight(SubSeq(text, 1, Len(text) - 1))
      ELSE text

Strip(text) == StripRight(StripLeft(text))

(* The label contains the text, case ignored.                              *)
Contains(label, text) ==
    \E k \in 1..(Len(label) + 1) : OccursAt(LowerAll(text), LowerAll(label), k)

NotFoundText == <<"not found">>
AmbiguousText == <<"ambiguous">>

Resolved(kind, i) == [kind |-> kind, i |-> i]

(* Menu.match with "$" treated like any other text.                        *)
menu_match_no_dollar(items, text) ==
    LET found == {i \in 1..Len(items) : Contains(items[i].text, text)}
    IN  IF found = {} THEN Resolved("not_found", 0)
        ELSE IF Cardinality(found) = 1 THEN Resolved("item", Min(found))
        ELSE Resolved("ambiguous", 0)

(* Menu.match taking the first of several matching items.                  *)
menu_match_first(items, text) ==
    LET found == {i \in 1..Len(items) : Contains(items[i].text, text)}
    IN  IF Strip(text) = <<"$">> THEN Resolved("item", Len(items))
        ELSE IF found = {} THEN Resolved("not_found", 0)
        ELSE Resolved("item", Min(found))

(* Menu.match: "$" (trimmed) is the last item; otherwise the one item      *)
(* whose label contains the text, or not found, or ambiguous.              *)
menu_match(items, text) ==
    LET found == {i \in 1..Len(items) : Contains(items[i].text, text)}
    IN  IF Strip(text) = <<"$">> THEN Resolved("item", Len(items))
        ELSE IF found = {} THEN Resolved("not_found", 0)
        ELSE IF Cardinality(found) = 1 THEN Resolved("item", Min(found))
        ELSE Resolved("ambiguous", 0)

(* The action of the chosen item, called with the item as the Caller's     *)
(* match.                                                                  *)
item_func(st, items, i) ==
    LET s1 == Log([st EXCEPT !.match = <<items[i]>>],
                  Call("item_func", st.c, i, items[i].func, None,
                       <<>>, <<>>, <<items[i]>>))
    IN  IF items[i].func = "swap"
          THEN parser_setter(s1, st.c, items[i].arg, TRUE)
          ELSE s1

(* Menu.handle_line.                                                       *)
menu_handle_line(st, id, line) ==
    LET items == MenuOf(id)
        r == menu_match(items, line)
    IN  IF r.kind = "item" THEN item_func(st, items, r.i)
        ELSE IF r.kind = "not_found" THEN notify(st, st.c, NotFoundText, <<>>, <<>>)
        ELSE notify(st, st.c, AmbiguousText, <<>>, <<>>)

----------------------------------------------------------------------------
(* The operations.                                                         *)

NoFormat == [text |-> <<>>, args |-> <<>>, kwargs |-> <<>>]

Event(op, c, raw, gate, value, fmt) ==
    [op |-> op, c |-> c, raw |-> raw, gate |-> gate, value |-> value, fmt |-> fmt]

(* The end of an operation: its parsers, calls and escaping fault become   *)
(* the state.                                                              *)
AllParsers == Parsers \cup MenuIds

(* The hook calls a parser has seen for a connection: "no" when it is not  *)
(* attached (never attached, or detached since), "yes" after an on_attach, *)
(* "broken" once an on_attach came while attached or an on_detach while    *)
(* not attached.                                                           *)
pairing_step(att, call) ==
    IF call.op = "on_attach"
      THEN [att EXCEPT ![call.c][call.a] = IF @ = "no" THEN "yes" ELSE "broken"]
    ELSE IF call.op = "on_detach"
      THEN [att EXCEPT ![call.c][call.a] = IF @ = "yes" THEN "no" ELSE "broken"]
    ELSE att

RECURSIVE pairing(_, _)
pairing(att, tr) ==
    IF tr = <<>> THEN att ELSE pairing(pairing_step(att, Head(tr)), Tail(tr))

NeverAttached == [c \in Conns |-> [p \in AllParsers |-> "no"]]

Finish(st) ==
    /\ parser' = st.parser
    /\ trace' = st.trace
    /\ raised' = st.raised

(* The history of the hooks is kept along with an operation, or left out.  *)
Tracked == attached' = pairing(attached, trace')
Untracked == UNCHANGED attached

RemoveFirst(seq, x) ==
    LET k == Min({i \in 1..Len(seq) : seq[i] = x})
    IN  SubSeq(seq, 1, k - 1) \o SubSeq(seq, k + 1, Len(seq))

InSeq(seq, x) == \E i \in 1..Len(seq) : seq[i] = x

(* The Commands a program registers: every guard and handler behaviour on *)
(* the pattern that matches anywhere, and two Commands on the anchored     *)
(* pattern.                                                                *)
Cmd(re, g, f) == [regexp |-> re, allowed |-> g, func |-> f, arg |-> None]

CommandPool ==
    { Cmd(AnyA, "none", f) : f \in PlainFuncs }
    \cup { Cmd(AnyA, g, "ok") : g \in TotalGuards }
    \cup { Cmd(OnlyA, "none", "ok"), Cmd(OnlyA, "true", "fault") }

(* Server.command(...)(func): append a Command to the registry.            *)
command(cmd) ==
    /\ Len(commands) < MaxCommands
    /\ commands' = Append(commands, cmd)
    /\ event' = Event("command", None, <<>>, TRUE, None, NoFormat)
    /\ trace' = <<>>
    /\ raised' = NoFault
    /\ UNCHANGED <<connections, default_parser, parser, phase>>

(* Protocol.lineReceived: decode, then the active parser's handle_line;    *)
(* with no parser the attribute lookup on None raises.  The line handler   *)
(* of a Menu is Menu.handle_line; the line handler of every other parser   *)
(* is the dispatch loop over the server's Commands, the only line handler  *)
(* the sources hold (Server.handle_line).                                  *)
lineReceived(c, raw, gate) ==
    /\ phase[c] = "made"
    /\ LET line == Decode(raw)
           st == Begin(c)
       IN  IF parser[c] = None
             THEN Finish(Raise(st, AttributeError))
           ELSE IF parser[c] \in MenuIds
             THEN Finish(menu_handle_line(
                      Log(st, Call("handle_line", c, 0, parser[c], None,
                                   line, <<>>, <<>>)),
                      parser[c], line))
             ELSE Finish(handle_line(
                      Log(st, Call("handle_line", c, 0, parser[c], None,
                                   line, <<>>, <<>>)),
                      line, gate))
    /\ event' = Event("lineReceived", c, raw, gate, None, NoFormat)
    /\ UNCHANGED <<commands, connections, default_parser, phase>>

(* connectionMade: self.server.connections.append(self).                   *)
register(cons, c) == Append(cons, c)

(* connectionLost without the removal.                                     *)
deregister_nothing(cons, c) == cons

(* connectionLost: remove self from the list if it is there.               *)
deregister(cons, c) == IF InSeq(cons, c) THEN RemoveFirst(cons, c) ELSE cons

(* Whether a connection is in the list when a hook is called with its      *)
(* Caller.                                                                 *)
Membership(cons, c) == IF InSeq(cons, c) THEN "registered" ELSE "unregistered"

(* Protocol.connectionMade.  hook is what the on_connect override does:    *)
(* "pass" (the default) or the value it assigns to the connection's        *)
(* parser.  A fault of the hook escapes before the attach call.            *)
connectionMade(c, hook) ==
    /\ phase[c] = "new"
    /\ phase' = [phase EXCEPT ![c] = "made"]
    /\ connections' = register(connections, c)
    /\ LET s1 == Log(Begin(c), HookCall("on_connect", c,
                                        Membership(register(connections, c), c), None))
           s2 == IF hook = "pass" THEN s1 ELSE parser_setter(s1, c, hook, TRUE)
       IN  IF s2.raised # NoFault THEN Finish(s2)
           ELSE IF s2.parser[c] # None
             THEN Finish(Log(s2, HookCall("on_attach", c, s2.parser[c], None)))
           ELSE Finish(s2)
    /\ event' = Event("connectionMade", c, <<>>, TRUE, hook, NoFormat)
    /\ UNCHANGED <<commands, default_parser>>

(* Protocol.connectionLost, also when it is delivered for a connection    *)
(* that is already lost (and so no longer registered).                     *)
connectionLost(c) ==
    /\ phase[c] \in {"made", "lost"}
    /\ phase' = [phase EXCEPT ![c] = "lost"]
    /\ connections' = deregister(connections, c)
    /\ Finish(Log(Log(Begin(c), PlainCall("logger.info", c)),
                  HookCall("on_disconnect", c,
                           Membership(deregister(connections, c), c), None)))
    /\ event' = Event("connectionLost", c, <<>>, TRUE, None, NoFormat)
    /\ UNCHANGED <<commands, default_parser>>

(* connection.parser = value, from outside the dispatch loop.              *)
setParser(c, value) ==
    /\ phase[c] # "lost"
    /\ Finish(parser_setter(Begin(c), c, value, phase[c] = "made"))
    /\ event' = Event("setParser", c, <<>>, TRUE, value, NoFormat)
    /\ UNCHANGED <<commands, connections, default_parser, phase>>

(* Server.notify(connection, text, *args, **kwargs); the connection may be *)
(* None.                                                                   *)
Notify(target, fmt) ==
    /\ target # None => phase[target] = "made"
    /\ Finish(notify(Begin(target), target, fmt.text, fmt.args, fmt.kwargs))
    /\ event' = Event("notify", target, <<>>, TRUE, None, fmt)
    /\ UNCHANGED <<commands, connections, default_parser, phase>>

(* Server.broadcast(text, *args, **kwargs).                                *)
Broadcast(fmt) ==
    /\ Finish(broadcast(Begin(None), fmt.text, fmt.args, fmt.kwargs))
    /\ event' = Event("broadcast", None, <<>>, TRUE, None, fmt)
    /\ UNCHANGED <<commands, connections, default_parser, phase>>

----------------------------------------------------------------------------
(* Spec: the connections' lifecycle over a registry fixed at start.        *)

SwapCommand(re, value) ==
    [regexp |-> re, allowed |-> "none", func |-> "swap", arg |-> value]

Registries ==
    { <<>>,
      << Cmd(OnlyA, "none", "ok"), SwapCommand(AnyA, "P2") >>,
      << Cmd(OnlyA, "true", "fault"), SwapCommand(AnyA, None) >> }

NoEvent == Event("init", None, <<>>, TRUE, None, NoFormat)

(* Each Protocol is constructed with a parser or with None.  Server itself *)
(* defines no default_parser (Undefined); a program may give its server    *)
(* one (here P1).                                                          *)
Init ==
    /\ commands \in Registries
    /\ connections = <<>>
    /\ default_parser \in {Undefined, "P1"}
    /\ parser \in [Conns -> ParserOrNone]
    /\ phase = [c \in Conns |-> "new"]
    /\ event = NoEvent
    /\ trace = <<>>
    /\ raised = NoFault
    /\ attached = NeverAttached

Next ==
    \/ \E c \in Conns, hook \in {"pass"} \cup ParserOrNone :
          connectionMade(c, hook) /\ Untracked
    \/ \E c \in Conns : connectionLost(c) /\ Untracked
    \/ \E c \in Conns, value \in ParserOrNone : setParser(c, value) /\ Untracked
    \/ \E c \in Conns, raw \in RawLines, gate \in BOOLEAN :
          lineReceived(c, raw, gate) /\ Untracked
    \/ \E target \in Conns \cup {None}, fmt \in FormatInputs :
          Notify(target, fmt) /\ Untracked
    \/ \E fmt \in FormatInputs : Broadcast(fmt) /\ Untracked

Spec == Init /\ [][Next]_vars

(* SpecDispatch: registration and dispatch over two established            *)
(* connections.                                                            *)
InitDispatch ==
    /\ commands = <<>>
    /\ connections = <<"c1", "c2">>
    /\ default_parser = Undefined
    /\ parser = [c \in Conns |-> IF c = "c1" THEN "P1" ELSE "P2"]
    /\ phase = [c \in Conns |-> "made"]
    /\ event = NoEvent
    /\ trace = <<>>
    /\ raised = NoFault
    /\ attached = NeverAttached

NextDispatch ==
    \/ \E cmd \in CommandPool : command(cmd) /\ Untracked
    \/ \E c \in Conns, raw \in RawLines, gate \in BOOLEAN :
          lineReceived(c, raw, gate) /\ Untracked

SpecDispatch == InitDispatch /\ [][NextDispatch]_vars

(* SpecMenu: two established connections in menus; items are chosen by    *)
(* lines, and parsers are assigned from outside.                           *)
InitMenu ==
    /\ commands = <<>>
    /\ connections = <<"c1", "c2">>
    /\ default_parser = "P1"
    /\ parser \in [Conns -> MenuIds]
    /\ phase = [c \in Conns |-> "made"]
    /\ event = NoEvent
    /\ trace = <<>>
    /\ raised = NoFault
    /\ attached = NeverAttached

NextMenu ==
    \/ \E c \in Conns, text \in MenuTexts :
          lineReceived(c, Encode(text), TRUE) /\ Untracked
    \/ \E c \in Conns, value \in MenuIds \cup {"P1"} : setParser(c, value) /\ Untracked

SpecMenu == InitMenu /\ [][NextMenu]_vars

(* SpecGuard: registration and dispatch where a guard may raise.           *)
GuardPool ==
    { Cmd(AnyA, "raise", "ok"), Cmd(OnlyA, "raise", "ok"),
      Cmd(AnyA, "false", "ok"), Cmd(AnyA, "none", "skip"), Cmd(OnlyA, "none", "ok") }

NextGuard ==
    \/ \E cmd \in GuardPool : command(cmd) /\ Untracked
    \/ \E c \in Conns, raw \in RawLines : lineReceived(c, raw, TRUE) /\ Untracked

SpecGuard == InitDispatch /\ [][NextGuard]_vars

(* SpecHooks: one connection from its construction on, with the history of *)
(* its attach and detach hooks: connectionMade (with an on_connect that    *)
(* passes or assigns a parser), assignments of the parser, lines.          *)
TheConn == "c1"

InitHooks ==
    /\ commands \in Registries
    /\ connections = <<>>
    /\ default_parser \in {Undefined, "P1"}
    /\ parser \in {f \in [Conns -> ParserOrNone] : \A c \in Conns \ {TheConn} : f[c] = None}
    /\ phase = [c \in Conns |-> "new"]
    /\ event = NoEvent
    /\ trace = <<>>
    /\ raised = NoFault
    /\ attached = NeverAttached

NextHooks ==
    \/ \E hook \in {"pass"} \cup ParserOrNone : connectionMade(TheConn, hook) /\ Tracked
    \/ \E value \in ParserOrNone : setParser(TheConn, value) /\ Tracked
    \/ \E raw \in RawLines : lineReceived(TheConn, raw, TRUE) /\ Tracked

SpecHooks == InitHooks /\ [][NextHooks]_vars

----------------------------------------------------------------------------
(* What the last operation did, read from its trace.                       *)

Calls(op) == {k \in 1..Len(trace) : trace[k].op = op}
LoopCalls == Calls("search") \cup Calls("allowed") \cup Calls("func")
FuncCalls == Calls("func")
SkipCalls == {k \in FuncCalls : trace[k].a = "skip"}
FaultCalls == {k \in FuncCalls : trace[k].a = "fault"}

(* The line the last lineReceived dispatched, and whether it reached the   *)
(* dispatch loop with the gate open.                                       *)
LastLine == Decode(event.raw)
Dispatched == event.op = "lineReceived" /\ Calls("on_command") # {}
GateOpen == Dispatched /\ event.gate

(* Eligibility as the specification states it: the search succeeds and the *)
(* guard is absent or true.                                                *)
Eligible(i) ==
    /\ Search(commands[i].regexp, LastLine) # <<>>
    /\ commands[i].allowed \in {"none", "true"}
EligibleSet == {i \in 1..Len(commands) : Eligible(i)}
Matching == {i \in 1..Len(commands) : Search(commands[i].regexp, LastLine) # <<>>}

----------------------------------------------------------------------------
(* C1: every connection has a parser (never None) in every reachable       *)
(* state, from construction onward.                                        *)
C1_ParserNeverAbsent == \A c \in Conns : parser[c] # None

(* C2: first match wins.  When the gate is open and no handler raises the  *)
(* skip condition, at most one handler is invoked; it is the handler of    *)
(* the earliest eligible Command, it is invoked when there is one, and no  *)
(* Command after it is searched, guarded or invoked.                       *)
C2_FirstMatchWins ==
    (GateOpen /\ SkipCalls = {}) =>
        /\ Cardinality(FuncCalls) <= 1
        /\ \A k \in FuncCalls :
              trace[k].i \in EligibleSet /\ trace[k].i = Min(EligibleSet)
        /\ EligibleSet # {} =>
              /\ FuncCalls # {}
              /\ \A k \in LoopCalls : trace[k].i <= Min(EligibleSet)

(* Two Commands are eligible for the line and the first one's handler ran. *)
C2_Witness ==
    /\ GateOpen /\ SkipCalls = {}
    /\ Cardinality(EligibleSet) >= 2
    /\ Len(commands) = 3
    /\ \E k \in FuncCalls : trace[k].i = Min(EligibleSet)

(* C3: when the gate is open and no Command is eligible, huh runs exactly  *)
(* once with the Caller's match None, no handler and no error hook run,    *)
(* and the connection is sent "I don't understand that." exactly once.     *)
C3_FallbackOnce ==
    (GateOpen /\ EligibleSet = {}) =>
        /\ Cardinality(Calls("huh")) = 1
        /\ \A k \in Calls("huh") : trace[k].match = <<>> /\ trace[k].c = event.c
        /\ FuncCalls = {}
        /\ Calls("on_error") = {}
        /\ Cardinality(Calls("sendLine")) = 1
        /\ \A k \in Calls("sendLine") :
              trace[k].c = event.c /\ trace[k].bytes = Encode(HuhText)
        /\ raised = NoFault

(* No Command is eligible although the last one's pattern matched (its     *)
(* guard said no), and huh ran.                                            *)
C3_Witness ==
    /\ GateOpen /\ EligibleSet = {}
    /\ Len(commands) >= 2 /\ Len(commands) \in Matching
    /\ Calls("huh") # {}

(* C4: when a handler raises a fault other than the skip condition, the    *)
(* fault is on the Caller's exception field when on_error is invoked,      *)
(* on_error is invoked exactly once for the line, no later Command is      *)
(* searched, guarded or invoked, and huh does not run.                     *)
C4_FaultHandled ==
    \A k \in FaultCalls :
        /\ Cardinality(Calls("on_error")) = 1
        /\ \A e \in Calls("on_error") :
              e > k /\ trace[e].a = HandlerFault /\ trace[e].c = event.c
        /\ \A j \in LoopCalls : trace[j].i <= trace[k].i
        /\ Calls("huh") = {}

(* A handler raised a fault while a later Command was eligible.            *)
C4_Witness ==
    \E k \in FaultCalls :
        /\ \E i \in EligibleSet : i > trace[k].i
        /\ Calls("on_error") # {}

(* C5: when a handler raises the skip condition, the loop goes on to the   *)
(* next Command in order: the skip invokes no error hook and sets no       *)
(* exception, and the next Command eligible after the skipping one has its *)
(* handler invoked.                                                        *)
C5_SkipContinues ==
    \A k \in SkipCalls :
        LET j == trace[k].i
            later == {i \in EligibleSet : i > j}
        IN  /\ k < Len(trace)
            /\ trace[k + 1].op \in {"search", "huh"}
            /\ trace[k + 1].b = None
            /\ j < Len(commands) =>
                  trace[k + 1].op = "search" /\ trace[k + 1].i = j + 1
            /\ later # {} =>
                  \E f \in FuncCalls : f > k /\ trace[f].i = Min(later)
            /\ \A e \in Calls("on_error") : \E f \in FaultCalls : f < e

(* A handler skipped, the Command after it was not eligible, and the one   *)
(* after that had its handler invoked.                                     *)
C5_Witness ==
    \E k \in SkipCalls :
        /\ trace[k].i + 1 \notin EligibleSet
        /\ trace[k].i + 2 \in EligibleSet
        /\ \E f \in FuncCalls : f > k /\ trace[f].i = trace[k].i + 2

(* C6: when on_command returns false nothing is dispatched: no search, no  *)
(* guard, no handler, no huh, no on_error, and nothing is sent.            *)
C6_GateSuppresses ==
    (Dispatched /\ ~event.gate) =>
        /\ LoopCalls = {}
        /\ Calls("huh") = {} /\ Calls("on_error") = {}
        /\ Calls("sendLine") = {}
        /\ raised = NoFault

(* The gate was closed on a line that a registered Command is eligible for.*)
C6_Witness ==
    /\ Dispatched /\ ~event.gate
    /\ EligibleSet # {}

(* C7: assigning None to a connection's parser leaves the server's default *)
(* parser active, with a warning emitted and the default parser's attach   *)
(* hook invoked with the previous parser as context.                       *)
C7_AbsentFallsBack ==
    (event.op = "setParser" /\ event.value = None) =>
        /\ default_parser \in Parsers
        /\ parser[event.c] = default_parser
        /\ Calls("warning") # {}
        /\ \E k \in Calls("on_attach") :
              /\ trace[k].a = default_parser
              /\ \A d \in Calls("on_detach") : trace[k].b = trace[d].a
              /\ Calls("on_detach") = {} => trace[k].b = None

(* C8: on every assignment to a connection's parser, the old parser (if    *)
(* present) is detached exactly once, before the attach, with the parser   *)
(* that is active after the assignment as context; then the incoming       *)
(* parser is attached exactly once with the old parser (or None) as        *)
(* context.                                                                *)
HookCalls(tr, op) == {k \in 1..Len(tr) : tr[k].op = op}

C8_DetachThenAttach ==
    [][event'.op = "setParser" =>
          LET c == event'.c
              old == parser[c]
              detaches == HookCalls(trace', "on_detach")
              attaches == HookCalls(trace', "on_attach")
          IN  /\ Cardinality(attaches) = 1
              /\ Cardinality(detaches) = IF old # None THEN 1 ELSE 0
              /\ \A d \in detaches :
                    /\ trace'[d].a = old
                    /\ trace'[d].b = parser'[c]
                    /\ \A a \in attaches : d < a
              /\ \A a \in attaches :
                    trace'[a].a = parser'[c] /\ trace'[a].b = old
      ]_vars

(* C9: a handler's fault other than the skip condition is contained:       *)
(* lineReceived returns normally, the connection list and the parsers of   *)
(* the other connections are as before, and the only line sent is the      *)
(* error notification to the originating connection.                       *)
HandlerRaises(tr) ==
    \E k \in HookCalls(tr, "func") :
        \/ tr[k].a = "fault"
        \/ /\ tr[k].a = "swap"
           /\ commands[tr[k].i].arg = None
           /\ default_parser = Undefined

C9_FaultContained ==
    [][(event'.op = "lineReceived" /\ HandlerRaises(trace')) =>
          /\ raised' = NoFault
          /\ connections' = connections
          /\ \A d \in Conns \ {event'.c} : parser'[d] = parser[d]
          /\ Cardinality(HookCalls(trace', "sendLine")) = 1
          /\ \A k \in HookCalls(trace', "sendLine") :
                trace'[k].c = event'.c /\ trace'[k].bytes = Encode(ErrorText)
      ]_vars

(* A handler raised while two connections were registered, and the error   *)
(* hook ran.                                                               *)
C9_Witness ==
    /\ event.op = "lineReceived"
    /\ HandlerRaises(trace)
    /\ Len(connections) = 2
    /\ Calls("on_error") # {}

(* C10: notify with a present connection sends exactly one line, to that   *)
(* connection; notify with None sends nothing and changes nothing;         *)
(* broadcast sends one line with the same formatted text to each           *)
(* connection of the server's list and to no other.                        *)
Formatted(fmt) ==
    CASE fmt.text = <<"hi">>           -> <<"hi">>
      [] fmt.text = <<"%%">>           -> <<"%%">>
      [] fmt.text = <<"%s", "%%">>     -> <<"v", "%">>
      [] fmt.text = <<"%(k)s">>        -> <<"w">>
      [] fmt.text = <<"%s", "%%(k)s">> -> <<"v", "w">>

SentTo(c) == {k \in Calls("sendLine") : trace[k].c = c}

C10_NotifyOne ==
    (event.op = "notify" /\ event.c # None) =>
        /\ Len(trace) = 1
        /\ SentTo(event.c) = {1}
        /\ trace[1].bytes = Encode(Formatted(event.fmt))

C10_NotifyNone ==
    (event.op = "notify" /\ event.c = None) => (trace = <<>> /\ raised = NoFault)

C10_BroadcastAll ==
    event.op = "broadcast" =>
        /\ Len(trace) = Len(connections)
        /\ \A c \in Conns :
              Cardinality(SentTo(c)) = IF InSeq(connections, c) THEN 1 ELSE 0
        /\ \A k \in 1..Len(trace) :
              trace[k].op = "sendLine" /\ trace[k].bytes = Encode(Formatted(event.fmt))

C10_NotifyBroadcast ==
    /\ [](C10_NotifyOne /\ C10_NotifyNone /\ C10_BroadcastAll)
    /\ [][(event'.op = "notify" /\ event'.c = None) =>
             UNCHANGED <<commands, connections, default_parser, parser, phase>>]_vars

(* A text with arguments was broadcast to two registered connections.      *)
C10_Witness ==
    /\ event.op = "broadcast"
    /\ event.fmt.args # <<>> /\ event.fmt.kwargs # <<>>
    /\ Len(connections) = 2
    /\ Len(trace) = 2

(* C11: the connection list holds exactly the connections that were made   *)
(* and not lost, each once; connectionMade calls on_connect once, with the *)
(* connection registered, and connectionLost calls on_disconnect once,     *)
(* with it deregistered, each with a Caller that carries the connection    *)
(* and no text; connectionLost for a connection that is not registered     *)
(* leaves the list as it was.                                              *)
Occurrences(seq, x) == Cardinality({i \in 1..Len(seq) : seq[i] = x})

C11_ListIsLive ==
    \A c \in Conns : Occurrences(connections, c) = IF phase[c] = "made" THEN 1 ELSE 0

C11_HookOnce(op, hookOp, status) ==
    event.op = op =>
        /\ Cardinality(Calls(hookOp)) = 1
        /\ \A k \in Calls(hookOp) :
              trace[k].c = event.c /\ trace[k].a = status /\ trace[k].text = <<>>

C11_Registration ==
    /\ [](C11_ListIsLive
          /\ C11_HookOnce("connectionMade", "on_connect", "registered")
          /\ C11_HookOnce("connectionLost", "on_disconnect", "unregistered")
          /\ (Calls("on_connect") # {} => event.op = "connectionMade")
          /\ (Calls("on_disconnect") # {} => event.op = "connectionLost"))
    /\ [][(event'.op = "connectionLost" /\ ~InSeq(connections, event'.c)) =>
             connections' = connections]_vars

(* A connection was lost while the other one, made after it, stays         *)
(* registered.                                                             *)
C11_Witness ==
    /\ event.op = "connectionLost" /\ event.c = "c1"
    /\ connections = <<"c2">>
    /\ Calls("on_disconnect") # {}

(* The menu that handled the last line, if a menu did.                     *)
MenuLine ==
    /\ event.op = "lineReceived"
    /\ trace # <<>>
    /\ trace[1].op = "handle_line"
    /\ trace[1].a \in MenuIds

LastMenu == MenuOf(trace[1].a)

(* C12: a line whose trimmed text is "$" selects the last item of the      *)
(* menu, whatever the labels are, with neither not-found nor ambiguous.    *)
C12_DollarIsLast ==
    (MenuLine /\ Strip(LastLine) = <<"$">>) =>
        /\ Cardinality(Calls("item_func")) = 1
        /\ \A k \in Calls("item_func") :
              /\ trace[k].i = Len(LastMenu)
              /\ trace[k].match = << LastMenu[Len(LastMenu)] >>
        /\ Calls("sendLine") = {}
        /\ raised = NoFault

(* "$" was sent to a menu in which another label holds "$" and the last    *)
(* label does not.                                                         *)
C12_Witness ==
    /\ MenuLine /\ Strip(LastLine) = <<"$">>
    /\ \E i \in 1..(Len(LastMenu) - 1) : Contains(LastMenu[i].text, <<"$">>)
    /\ ~Contains(LastMenu[Len(LastMenu)].text, <<"$">>)
    /\ Calls("item_func") # {}

(* C13: for a line other than "$", with M the items whose label contains   *)
(* the line (case ignored): one item in M has its action invoked once with *)
(* the item as the Caller's match; none gives the "not found"              *)
(* notification and no action; two or more give the "ambiguous"            *)
(* notification and no action.  No fault escapes.                          *)
LabelHolds(label, text) ==
    \E k \in 0..Len(label) :
        /\ k + Len(text) <= Len(label)
        /\ \A j \in 1..Len(text) : Lower(label[k + j]) = Lower(text[j])

MatchSet == {i \in 1..Len(LastMenu) : LabelHolds(LastMenu[i].text, LastLine)}

OnlySent(text) ==
    /\ Cardinality(Calls("sendLine")) = 1
    /\ \A k \in Calls("sendLine") :
          trace[k].c = event.c /\ trace[k].bytes = Encode(text)

C13_MenuResolution ==
    (MenuLine /\ Strip(LastLine) # <<"$">>) =>
        /\ raised = NoFault
        /\ Cardinality(Calls("item_func")) <= 1
        /\ Cardinality(MatchSet) = 1 =>
              /\ Cardinality(Calls("item_func")) = 1
              /\ \A k \in Calls("item_func") :
                    /\ trace[k].i \in MatchSet
                    /\ trace[k].match = << LastMenu[trace[k].i] >>
              /\ Calls("sendLine") = {}
        /\ MatchSet = {} =>
              Calls("item_func") = {} /\ OnlySent(NotFoundText)
        /\ Cardinality(MatchSet) >= 2 =>
              Calls("item_func") = {} /\ OnlySent(AmbiguousText)

(* "B" was sent to the three-item menu, where only the label "Ab" holds   *)
(* it, in the other case, and that item's action ran.                      *)
C13_Witness ==
    /\ MenuLine /\ LastLine = <<"B">>
    /\ Cardinality(MatchSet) = 1
    /\ Len(LastMenu) = 3
    /\ Calls("item_func") # {}

(* C14: whenever a guard or a handler is invoked, the Caller's match is    *)
(* the result of searching that Command's own pattern against the current  *)
(* line, and it is a match: never one left by an earlier Command.          *)
C14_MatchIsFresh ==
    Dispatched =>
        \A k \in Calls("allowed") \cup FuncCalls :
            /\ trace[k].match # <<>>
            /\ trace[k].match = Search(commands[trace[k].i].regexp, LastLine)

(* The third Command's handler ran after the first Command's search failed *)
(* and the second Command, whose pattern matched, was refused by its guard.*)
C14_Witness ==
    /\ GateOpen
    /\ 1 \notin Matching
    /\ 2 \in Matching /\ 2 \notin EligibleSet
    /\ \E k \in FuncCalls : trace[k].i = 3 /\ trace[k].match # <<>>

(* C15: a handler is invoked only for a Command whose search succeeded and *)
(* whose guard is absent or answered true; a guard is evaluated only for a *)
(* Command whose search succeeded; a guard answering false does not stop   *)
(* the loop: the next Command is tried, and huh runs when no Command is    *)
(* eligible.                                                               *)
C15_GuardSemantics ==
    GateOpen =>
        /\ \A k \in FuncCalls : trace[k].i \in EligibleSet
        /\ \A k \in Calls("allowed") :
              /\ trace[k].i \in Matching
              /\ commands[trace[k].i].allowed # "none"
              /\ trace[k].a = "false" =>
                    /\ k < Len(trace)
                    /\ trace[k + 1].op \in {"search", "huh"}
                    /\ trace[k].i < Len(commands) =>
                          trace[k + 1].op = "search" /\ trace[k + 1].i = trace[k].i + 1
                    /\ \A f \in FuncCalls : trace[f].i # trace[k].i
        /\ EligibleSet = {} => Calls("huh") # {}

(* A guard answered false and the handler of a later Command ran.          *)
C15_Witness ==
    /\ GateOpen
    /\ \E k \in Calls("allowed") :
          /\ trace[k].a = "false"
          /\ \E f \in FuncCalls : f > k /\ trace[f].i > trace[k].i

C17_InitialAttachOnce ==
    [][event'.op = "connectionMade" =>
          LET c == event'.c
              initial == parser[c]
              first == {k \in HookCalls(trace', "on_attach") : trace'[k].b = None}
          IN  /\ \A k \in first : trace'[k].c = c /\ trace'[k].a = initial
              /\ Cardinality(first) = IF initial = None THEN 0 ELSE 1
      ]_vars

(* C18: the hook calls each parser sees for a connection alternate attach, *)
(* detach, attach, ...: never two attach calls without a detach between,   *)
(* never a detach without an attach before it; and between operations the  *)
(* only parser that is attached and not detached is the connection's       *)
(* active parser.                                                          *)
C18_HooksPaired ==
    \A c \in Conns, p \in AllParsers :
        /\ attached[c][p] # "broken"
        /\ attached[c][p] = "yes" => parser[c] = p

(* C19: a skip causes no notification.  When every Command eligible for   *)
(* the line has a handler that raises the skip condition, the dispatch     *)
(* logs no error, invokes no on_error and sends nothing; and huh runs only *)
(* when no Command was eligible.                                           *)
C19_SkipIsSilent ==
    GateOpen =>
        /\ (EligibleSet # {} /\ \A i \in EligibleSet : commands[i].func = "skip") =>
              /\ Calls("logger.exception") = {}
              /\ Calls("on_error") = {}
              /\ Calls("sendLine") = {}
        /\ Calls("huh") # {} => EligibleSet = {}

(* C20: a fault raised by a Command's guard does not leave handle_line: it *)
(* is captured on the Caller's exception field and given to on_error       *)
(* exactly once, like a handler's fault.                                   *)
C20_GuardContained ==
    Dispatched =>
        \A k \in Calls("allowed") :
            trace[k].a = "raise" =>
                /\ raised = NoFault
                /\ Cardinality(Calls("on_error")) = 1
                /\ \A e \in Calls("on_error") : e > k /\ trace[e].a = HandlerFault

====
